---- MODULE Spec2Model ----
(***************************************************************************)
(* Model of generate_duels_viz.py: the duel dataset builder                *)
(* (fetch_match_info, fetch_player_duels, fetch_team_percentages), the     *)
(* chart layout engine (create_chart) and the driver (main).               *)
(***************************************************************************)
EXTENDS Integers, Sequences, FiniteSets, TLC

(***************************************************************************)
(* Python floats (IEEE-754 binary64, round to nearest, ties to even).      *)
(* A float is a record [neg, m, e] of value (-1)^neg * m * 2^e, where m is *)
(* a natural number written as a sequence of bits, least significant bit   *)
(* first, with no zero bit at either end (the empty sequence is 0).  The   *)
(* representation is unique, so equality of records is equality of floats. *)
(* Exponent range limits (overflow, subnormals) are never approached by    *)
(* the values of this program and are not modelled.                        *)
(***************************************************************************)
Mantissa == 53

RECURSIVE TrimHigh(_)
TrimHigh(a) ==
    IF a = <<>> THEN <<>>
    ELSE IF a[Len(a)] = 0 THEN TrimHigh(SubSeq(a, 1, Len(a) - 1))
    ELSE a

RECURSIVE BAddC(_, _, _)
BAddC(a, b, c) ==
    IF a = <<>> /\ b = <<>> THEN (IF c = 1 THEN <<1>> ELSE <<>>)
    ELSE LET x == IF a = <<>> THEN 0 ELSE Head(a)
             y == IF b = <<>> THEN 0 ELSE Head(b)
             s == x + y + c
         IN  <<s % 2>> \o BAddC(IF a = <<>> THEN <<>> ELSE Tail(a),
                                IF b = <<>> THEN <<>> ELSE Tail(b),
                                s \div 2)

BAdd(a, b) == BAddC(a, b, 0)

RECURSIVE BSubC(_, _, _)
BSubC(a, b, br) ==
    IF a = <<>> THEN <<>>
    ELSE LET y == IF b = <<>> THEN 0 ELSE Head(b)
             d == Head(a) - y - br
         IN  <<(d + 2) % 2>> \o BSubC(Tail(a),
                                      IF b = <<>> THEN <<>> ELSE Tail(b),
                                      IF d < 0 THEN 1 ELSE 0)

\* a - b for a >= b
BSub(a, b) == TrimHigh(BSubC(a, b, 0))

RECURSIVE BLess(_, _)
BLess(a, b) ==
    IF Len(a) # Len(b) THEN Len(a) < Len(b)
    ELSE IF a = <<>> THEN FALSE
    ELSE IF a[Len(a)] # b[Len(b)] THEN a[Len(a)] < b[Len(b)]
    ELSE BLess(TrimHigh(SubSeq(a, 1, Len(a) - 1)) ,
               TrimHigh(SubSeq(b, 1, Len(b) - 1)))

ShiftLeft(a, k) == IF a = <<>> THEN <<>> ELSE [i \in 1..k |-> 0] \o a

RECURSIVE BMul(_, _)
BMul(a, b) ==
    IF b = <<>> \/ a = <<>> THEN <<>>
    ELSE LET rest == ShiftLeft(BMul(a, Tail(b)), 1)
         IN  IF Head(b) = 1 THEN BAdd(a, rest) ELSE rest

RECURSIVE IntBits(_)
IntBits(n) == IF n = 0 THEN <<>> ELSE <<n % 2>> \o IntBits(n \div 2)

RECURSIVE BToInt(_)
BToInt(a) == IF a = <<>> THEN 0 ELSE Head(a) + 2 * BToInt(Tail(a))

FZero == [neg |-> FALSE, m |-> <<>>, e |-> 0]

RECURSIVE Norm(_)
Norm(d) ==
    IF d.m = <<>> THEN FZero
    ELSE IF Head(d.m) = 0 THEN Norm([d EXCEPT !.m = Tail(d.m), !.e = d.e + 1])
    ELSE d

\* the exact sum of two floats, as an unrounded dyadic number
DAdd(x, y) ==
    LET e  == IF x.e < y.e THEN x.e ELSE y.e
        mx == ShiftLeft(x.m, x.e - e)
        my == ShiftLeft(y.m, y.e - e)
    IN  IF x.neg = y.neg
        THEN Norm([neg |-> x.neg, m |-> BAdd(mx, my), e |-> e])
        ELSE IF BLess(mx, my)
        THEN Norm([neg |-> y.neg, m |-> BSub(my, mx), e |-> e])
        ELSE Norm([neg |-> x.neg, m |-> BSub(mx, my), e |-> e])

FNeg(x) == IF x.m = <<>> THEN x ELSE [x EXCEPT !.neg = ~x.neg]

\* round a normalised dyadic number to a 53-bit significand, ties to even
Round53(d) ==
    IF Len(d.m) <= Mantissa THEN d
    ELSE LET n      == Len(d.m) - Mantissa
             keep   == SubSeq(d.m, n + 1, Len(d.m))
             guard  == d.m[n]
             sticky == \E i \in 1..(n - 1) : d.m[i] = 1
             up     == guard = 1 /\ (sticky \/ keep[1] = 1)
             kept   == IF up THEN BAdd(keep, <<1>>) ELSE keep
         IN  Norm([neg |-> d.neg, m |-> kept, e |-> d.e + n])

FAdd(x, y) == Round53(DAdd(x, y))
FSub(x, y) == Round53(DAdd(x, FNeg(y)))
FMul(x, y) ==
    Round53(Norm([neg |-> x.neg # y.neg, m |-> BMul(x.m, y.m), e |-> x.e + y.e]))

FLe(x, y) == ~ DAdd(y, FNeg(x)).neg

FromInt(n) == Norm([neg |-> FALSE, m |-> IntBits(n), e |-> 0])

\* the bits of the fraction r/q (r < q), most significant first, and the
\* remainder left after k bits
RECURSIVE FracBits(_, _, _)
FracBits(r, q, k) ==
    IF k = 0 THEN <<r>>
    ELSE <<(2 * r) \div q>> \o FracBits((2 * r) % q, q, k - 1)

Reverse(s) == [i \in 1..Len(s) |-> s[Len(s) + 1 - i]]

\* int / int (true division) and decimal literals: the float nearest p/q,
\* for p >= 0 and q > 0.  64 fraction bits and a sticky bit are more than
\* 53 significant bits for every quotient >= 2^-9.
FDivInt(p, q) ==
    LET fb     == FracBits(p % q, q, 64)
        sticky == IF fb[65] # 0 THEN 1 ELSE 0
        bits   == <<sticky>> \o Reverse(SubSeq(fb, 1, 64)) \o IntBits(p \div q)
    IN  Round53(Norm([neg |-> FALSE, m |-> TrimHigh(bits), e |-> -65]))

\* int(x): truncation toward zero
FTruncInt(x) ==
    LET mag == IF x.e >= 0 THEN BToInt(ShiftLeft(x.m, x.e))
               ELSE IF -x.e >= Len(x.m) THEN 0
               ELSE BToInt(SubSeq(x.m, 1 - x.e, Len(x.m)))
    IN  IF x.neg THEN -mag ELSE mag


(***************************************************************************)
(* Bounds of the model and constants of the program.                       *)
(***************************************************************************)
MaxRows == 3        \* player rows in a frame
MaxDuel == 1        \* largest duelWon / duelLost of a row
MaxCount == 2       \* largest ground / aerial duel count of a side

LEGEND_TOTAL_WIDTH == FromInt(6)
Percent == 100
NaN == -1           \* a missing numeric cell of a frame

DefaultTeam == "Galatasaray"
TeamNames == {"Galatasaray", "Fenerbahce", "Besiktas"}

VARIABLES
    pc,                 \* position of main
    error,              \* the exception that ended the invocation, or "none"
    fetched,            \* data categories fetched and parsed so far, in order
    match_dict,         \* provider: ss.get_match_dict
    rows,               \* provider: ss.scrape_player_match_stats
    game,               \* provider: ss.scrape_team_match_stats
    teams,              \* provider: ss.get_team_names
    team_name,          \* args.team
    match_info,         \* result of fetch_match_info
    players,            \* result of fetch_player_duels
    team_stats,         \* result of fetch_team_percentages
    fig,                \* the figure: "none", "open" or "closed"
    panels,             \* panels drawn so far, in order
    xmax,               \* upper bound of the chart panel's x axis
    total_labels,       \* x anchors of the total labels, one per row
    team_bar_width,     \* legend segment widths
    opponent_bar_width,
    artifact            \* TRUE once the output file has been written

vars == <<pc, error, fetched, match_dict, rows, game, teams, team_name,
          match_info, players, team_stats, fig, panels, xmax, total_labels,
          team_bar_width, opponent_bar_width, artifact>>

provider == <<match_dict, rows, game, teams, team_name>>
chart == <<fig, panels, xmax, total_labels, team_bar_width,
           opponent_bar_width, artifact>>

(***************************************************************************)
(* fetch_player_duels                                                      *)
(***************************************************************************)
NumericFields == {"minutesPlayed", "duelWon", "duelLost", "duelTotal"}

\* the filter without the goalkeeper mask
EligibleWithKeepers(r, team) ==
    /\ r.substitute = FALSE
    /\ r.teamName = team

\* the three boolean masks applied to the frame, in source order
Eligible(r, team) ==
    /\ r.position # "G"
    /\ r.substitute = FALSE
    /\ r.teamName = team

Filter(frame, team) == SelectSeq(frame, LAMBDA r : Eligible(r, team))

\* DataFrame.fillna(0.0): every missing cell becomes 0
FillNa(frame) ==
    [i \in 1..Len(frame) |->
        [f \in DOMAIN frame[i] |->
            IF f \in NumericFields /\ frame[i][f] = NaN THEN 0 ELSE frame[i][f]]]

\* NaN-propagating float addition of two cells
CellAdd(a, b) == IF a = NaN \/ b = NaN THEN NaN ELSE a + b

\* players["duelTotal"] = players["duelWon"] + players["duelLost"]
AddDuelTotal(frame) ==
    [i \in 1..Len(frame) |->
        [f \in DOMAIN frame[i] \cup {"duelTotal"} |->
            IF f = "duelTotal"
            THEN CellAdd(frame[i].duelWon, frame[i].duelLost)
            ELSE frame[i][f]]]

\* the total computed before the missing cells are filled
PrepareTotalFirst(frame) == FillNa(AddDuelTotal(frame))

\* fillna, then the total
Prepare(frame) == AddDuelTotal(FillNa(frame))

\* descending order on one key; a missing key sorts last (na_position="last")
KeyBefore(a, b) == a # NaN /\ (b = NaN \/ a > b)

\* a precedes b under by=["duelTotal", "duelWon"], ascending=[False, False]
RowBefore(a, b) ==
    \/ KeyBefore(a.duelTotal, b.duelTotal)
    \/ a.duelTotal = b.duelTotal /\ KeyBefore(a.duelWon, b.duelWon)

\* an insertion that puts r in front of the rows it ties with
RECURSIVE InsertRowUnstable(_, _)
InsertRowUnstable(sorted, r) ==
    IF sorted = <<>> THEN <<r>>
    ELSE IF ~RowBefore(Head(sorted), r) THEN <<r>> \o sorted
    ELSE <<Head(sorted)>> \o InsertRowUnstable(Tail(sorted), r)

\* insert r behind every row that does not sort strictly after it
RECURSIVE InsertRow(_, _)
InsertRow(sorted, r) ==
    IF sorted = <<>> THEN <<r>>
    ELSE IF RowBefore(r, Head(sorted)) THEN <<r>> \o sorted
    ELSE <<Head(sorted)>> \o InsertRow(Tail(sorted), r)

\* DataFrame.sort_values on two keys (a lexsort, which is stable)
RECURSIVE SortValues(_)
SortValues(frame) ==
    IF frame = <<>> THEN <<>>
    ELSE InsertRow(SortValues(SubSeq(frame, 1, Len(frame) - 1)), frame[Len(frame)])

\* the dict built from one row of the frame
ToRecord(r) ==
    [player |-> r.name, minutes |-> r.minutesPlayed,
     won |-> r.duelWon, lost |-> r.duelLost]

ToRecords(frame) == [i \in 1..Len(frame) |-> ToRecord(frame[i])]

\* int(float('nan')) raises ValueError
HasNaN(frame) ==
    \E i \in 1..Len(frame) :
        NaN \in {frame[i].minutesPlayed, frame[i].duelWon, frame[i].duelLost}

ResultReverse(result) == Reverse(result)

PlayerFrame(frame, team) == SortValues(Prepare(Filter(frame, team)))

fetch_player_duels(frame, team) ==
    ResultReverse(ToRecords(PlayerFrame(frame, team)))


(***************************************************************************)
(* fetch_match_info                                                        *)
(***************************************************************************)
TURKISH_MONTHS ==
    <<"Ocak", "Subat", "Mart", "Nisan", "Mayis", "Haziran", "Temmuz",
      "Agustos", "Eylul", "Ekim", "Kasim", "Aralik">>

TournamentNames ==
    {"UEFA Champions League", "Super Lig", "Turkish Cup", "Turkish Super Cup"}

TURKISH_TOURNAMENTS(t) ==
    CASE t = "UEFA Champions League" -> "Sampiyonlar Ligi"
      [] t = "Super Lig"             -> "Super Lig"
      [] t = "Turkish Cup"           -> "Ziraat Turkiye Kupasi"
      [] t = "Turkish Super Cup"     -> "Super Kupa"

\* TURKISH_TOURNAMENTS.get(tournament_en, tournament_en)
TranslateTournament(t) ==
    IF t \in TournamentNames THEN TURKISH_TOURNAMENTS(t) ELSE t

fetch_match_info(d) ==
    [home_team  |-> d.homeTeam,
     away_team  |-> d.awayTeam,
     home_score |-> d.homeScore,
     away_score |-> d.awayScore,
     tournament |-> TranslateTournament(d.tournament),
     season     |-> "2025/2026",
     date       |-> <<d.day, TURKISH_MONTHS[d.month], d.year>>]

(***************************************************************************)
(* fetch_team_percentages                                                  *)
(***************************************************************************)
DigitChars == <<"0", "1", "2", "3", "4", "5", "6", "7", "8", "9">>

IsDigit(c) == \E i \in 1..Len(DigitChars) : DigitChars[i] = c
DigitValue(c) == (CHOOSE i \in 1..Len(DigitChars) : DigitChars[i] = c) - 1

\* str.replace("%", ""): every percent marker is removed
StripPercent(s) == SelectSeq(s, LAMBDA c : c # "%")

\* int(s) accepts a non-empty string of decimal digits (strings of the model
\* are made of digits, "%" and "."; signs and blanks do not occur in them)
IsIntLiteral(s) == s # <<>> /\ \A i \in 1..Len(s) : IsDigit(s[i])

RECURSIVE ParseDigits(_)
ParseDigits(s) ==
    IF s = <<>> THEN 0
    ELSE 10 * ParseDigits(SubSeq(s, 1, Len(s) - 1)) + DigitValue(s[Len(s)])

ParsePercent(s) == ParseDigits(StripPercent(s))
CanParsePercent(s) == IsIntLiteral(StripPercent(s))

\* game[game["period"] == "ALL"], then game[game["name"] == n]
StatRows(g, n) == SelectSeq(g, LAMBDA r : r.period = "ALL" /\ r.name = n)

\* .iloc[0] raises IndexError on an empty selection
HasStatRows(g) ==
    /\ StatRows(g, "Duels") # <<>>
    /\ StatRows(g, "Ground duels") # <<>>
    /\ StatRows(g, "Aerial duels") # <<>>

\* the lookup reading the away name
IsHomeBySecondName(names, team) == names[2] = team

IsHome(names, team) == names[1] = team

PercentStrings(g, names, team) ==
    LET duel_row == StatRows(g, "Duels")[1]
    IN  IF IsHome(names, team)
        THEN [team |-> duel_row.home, opponent |-> duel_row.away]
        ELSE [team |-> duel_row.away, opponent |-> duel_row.home]

CanParsePercents(g, names, team) ==
    /\ CanParsePercent(PercentStrings(g, names, team).team)
    /\ CanParsePercent(PercentStrings(g, names, team).opponent)

fetch_team_percentages(g, names, team) ==
    LET ground_row == StatRows(g, "Ground duels")[1]
        aerial_row == StatRows(g, "Aerial duels")[1]
        is_home    == IsHome(names, team)
        pct        == PercentStrings(g, names, team)
        team_won   == IF is_home
                      THEN ground_row.homeValue + aerial_row.homeValue
                      ELSE ground_row.awayValue + aerial_row.awayValue
        opp_won    == IF is_home
                      THEN ground_row.awayValue + aerial_row.awayValue
                      ELSE ground_row.homeValue + aerial_row.homeValue
    IN  [team_pct      |-> ParsePercent(pct.team),
         opponent_pct  |-> ParsePercent(pct.opponent),
         team_name     |-> team,
         opponent_name |-> IF is_home THEN names[2] ELSE names[1],
         team_won      |-> team_won,
         opponent_won  |-> opp_won,
         total         |-> team_won + opp_won]

(***************************************************************************)
(* create_chart: the data-dependent geometry                               *)
(***************************************************************************)
\* totals = won_arr + lost_arr (float arrays)
Totals(ps) == [i \in 1..Len(ps) |-> FAdd(FromInt(ps[i].won), FromInt(ps[i].lost))]

\* np.max of a non-empty float array
ArrayMax(a) == a[CHOOSE i \in 1..Len(a) : \A j \in 1..Len(a) : FLe(a[j], a[i])]

\* the axis bound without the padding
AxisUpperBoundNoPadding(ps) == FTruncInt(ArrayMax(Totals(ps)))

\* int(np.max(totals) + 1.5)
AxisUpperBound(ps) == FTruncInt(FAdd(ArrayMax(Totals(ps)), FDivInt(3, 2)))

\* tot + 0.25, for every row
TotalLabelAnchors(ps) ==
    [i \in 1..Len(ps) |-> FAdd(Totals(ps)[i], FDivInt(1, 4))]

\* the opponent's segment sized by the opponent's own percentage
LegendWidthsByPercentages(stats) ==
    [team     |-> FMul(FDivInt(stats.team_pct, Percent), LEGEND_TOTAL_WIDTH),
     opponent |-> FMul(FDivInt(stats.opponent_pct, Percent), LEGEND_TOTAL_WIDTH)]

\* (team_pct / 100) * LEGEND_TOTAL_WIDTH and the remainder of the bar
LegendWidths(stats) ==
    LET team_width == FMul(FDivInt(stats.team_pct, Percent), LEGEND_TOTAL_WIDTH)
    IN  [team |-> team_width, opponent |-> FSub(LEGEND_TOTAL_WIDTH, team_width)]


(***************************************************************************)
(* main: one action per step of the invocation.                            *)
(***************************************************************************)
Abort(e) ==
    /\ pc' = "aborted"
    /\ error' = e

\* line 453
FetchMatchInfo ==
    /\ pc = "match_info"
    /\ match_info' = fetch_match_info(match_dict)
    /\ fetched' = Append(fetched, "match")
    /\ pc' = "players"
    /\ UNCHANGED <<error, provider, players, team_stats, chart>>

\* line 456
FetchPlayerDuels ==
    /\ pc = "players"
    /\ IF HasNaN(PlayerFrame(rows, team_name))
       THEN /\ Abort("ValueError")
            /\ UNCHANGED <<players, fetched>>
       ELSE /\ players' = fetch_player_duels(rows, team_name)
            /\ fetched' = Append(fetched, "players")
            /\ pc' = "team"
            /\ UNCHANGED error
    /\ UNCHANGED <<provider, match_info, team_stats, chart>>

\* line 459
FetchTeamPercentages ==
    /\ pc = "team"
    /\ HasStatRows(game)
    /\ CanParsePercents(game, teams, team_name)
    /\ team_stats' = fetch_team_percentages(game, teams, team_name)
    /\ fetched' = Append(fetched, "team")
    /\ pc' = "chart"
    /\ UNCHANGED <<error, provider, match_info, players, chart>>

\* lines 149-151: a statistic row is absent from the frame
FetchTeamPercentagesIndexError ==
    /\ pc = "team"
    /\ ~HasStatRows(game)
    /\ Abort("IndexError")
    /\ UNCHANGED <<fetched, provider, match_info, players, team_stats, chart>>

\* the parse failure swallowed: main goes on to draw
FetchTeamPercentagesErrorIgnored ==
    /\ pc = "team"
    /\ HasStatRows(game)
    /\ ~CanParsePercents(game, teams, team_name)
    /\ pc' = "chart"
    /\ UNCHANGED <<error, fetched, provider, match_info, players, team_stats, chart>>

\* lines 163-164: int() rejects the percentage string
FetchTeamPercentagesValueError ==
    /\ pc = "team"
    /\ HasStatRows(game)
    /\ ~CanParsePercents(game, teams, team_name)
    /\ Abort("ValueError")
    /\ UNCHANGED <<fetched, provider, match_info, players, team_stats, chart>>

\* any call of the provider (lines 67, 95, 147, 154) may raise
ProviderError ==
    /\ pc \in {"match_info", "players", "team"}
    /\ Abort("ProviderError")
    /\ UNCHANGED <<fetched, provider, match_info, players, team_stats, chart>>

data == <<fetched, provider, match_info, players, team_stats>>

\* lines 198-199
CreateFigure ==
    /\ pc = "chart"
    /\ fig' = "open"
    /\ pc' = "title"
    /\ UNCHANGED <<error, data, panels, xmax, total_labels, team_bar_width,
                   opponent_bar_width, artifact>>

\* lines 201-244
DrawTitle ==
    /\ pc = "title"
    /\ panels' = Append(panels, "title")
    /\ pc' = "bars"
    /\ UNCHANGED <<error, data, fig, xmax, total_labels, team_bar_width,
                   opponent_bar_width, artifact>>

\* lines 246-316
DrawChart ==
    /\ pc = "bars"
    /\ players # <<>>
    /\ xmax' = AxisUpperBound(players)
    /\ total_labels' = TotalLabelAnchors(players)
    /\ panels' = Append(panels, "chart")
    /\ pc' = "names"
    /\ UNCHANGED <<error, data, fig, team_bar_width, opponent_bar_width,
                   artifact>>

\* line 263: np.max of an empty array raises ValueError
DrawChartValueError ==
    /\ pc = "bars"
    /\ players = <<>>
    /\ Abort("ValueError")
    /\ UNCHANGED <<data, chart>>

\* lines 318-350
DrawPlayers ==
    /\ pc = "names"
    /\ panels' = Append(panels, "players")
    /\ pc' = "legend"
    /\ UNCHANGED <<error, data, fig, xmax, total_labels, team_bar_width,
                   opponent_bar_width, artifact>>

\* lines 352-421
DrawLegend ==
    /\ pc = "legend"
    /\ team_bar_width' = LegendWidths(team_stats).team
    /\ opponent_bar_width' = LegendWidths(team_stats).opponent
    /\ panels' = Append(panels, "legend")
    /\ pc' = "save"
    /\ UNCHANGED <<error, data, fig, xmax, total_labels, artifact>>

\* line 424
SaveFig ==
    /\ pc = "save"
    /\ artifact' = TRUE
    /\ pc' = "close"
    /\ UNCHANGED <<error, data, fig, panels, xmax, total_labels,
                   team_bar_width, opponent_bar_width>>

\* line 424: the output path cannot be written
SaveFigError ==
    /\ pc = "save"
    /\ Abort("OSError")
    /\ UNCHANGED <<data, chart>>

\* line 425, then the return to main (line 463)
CloseFig ==
    /\ pc = "close"
    /\ fig' = "closed"
    /\ pc' = "done"
    /\ UNCHANGED <<error, data, panels, xmax, total_labels, team_bar_width,
                   opponent_bar_width, artifact>>

create_chart ==
    \/ CreateFigure
    \/ DrawTitle
    \/ DrawChart
    \/ DrawChartValueError
    \/ DrawPlayers
    \/ DrawLegend
    \/ SaveFig
    \/ SaveFigError
    \/ CloseFig

Next ==
    \/ FetchMatchInfo
    \/ FetchPlayerDuels
    \/ FetchTeamPercentages
    \/ FetchTeamPercentagesIndexError
    \/ FetchTeamPercentagesValueError
    \/ ProviderError
    \/ create_chart

(***************************************************************************)
(* Provider data.                                                          *)
(***************************************************************************)
SeqsUpTo(S, n) == UNION {[1..k -> S] : k \in 0..n}

\* the player's name is its row number in the provider's frame
Named(f) ==
    [i \in 1..Len(f) |->
        [name |-> i, position |-> f[i].position, substitute |-> f[i].substitute,
         teamName |-> f[i].teamName, minutesPlayed |-> f[i].minutesPlayed,
         duelWon |-> f[i].duelWon, duelLost |-> f[i].duelLost]]

Frames(S, n) == {Named(f) : f \in SeqsUpTo(S, n)}

RECURSIVE IntChars(_)
IntChars(n) ==
    IF n < 10 THEN <<DigitChars[n + 1]>>
    ELSE IntChars(n \div 10) \o <<DigitChars[(n % 10) + 1]>>

PercentString(n) == IntChars(n) \o <<"%">>

\* the team statistics frame: rows of the first half, which the period
\* filter must skip, then the rows of the whole match
Game(home_pct, away_pct, gh, ga, ah, aa) ==
    <<[period |-> "1ST", name |-> "Duels", home |-> <<"7", "%">>,
       away |-> <<"9", "3", "%">>, homeValue |-> 7, awayValue |-> 93],
      [period |-> "1ST", name |-> "Ground duels", home |-> <<>>, away |-> <<>>,
       homeValue |-> MaxCount + 1, awayValue |-> MaxCount + 2],
      [period |-> "1ST", name |-> "Aerial duels", home |-> <<>>, away |-> <<>>,
       homeValue |-> MaxCount + 3, awayValue |-> MaxCount + 4],
      [period |-> "ALL", name |-> "Ball possession", home |-> <<"6", "0", "%">>,
       away |-> <<"4", "0", "%">>, homeValue |-> 60, awayValue |-> 40],
      [period |-> "ALL", name |-> "Duels", home |-> home_pct, away |-> away_pct,
       homeValue |-> 0, awayValue |-> 0],
      [period |-> "ALL", name |-> "Ground duels", home |-> <<>>, away |-> <<>>,
       homeValue |-> gh, awayValue |-> ga],
      [period |-> "ALL", name |-> "Aerial duels", home |-> <<>>, away |-> <<>>,
       homeValue |-> ah, awayValue |-> aa]>>

\* a frame from which the whole-match rows are absent
GameWithoutRows == SubSeq(Game(<<>>, <<>>, 0, 0, 0, 0), 1, 4)

MatchDict(names, tournament) ==
    [homeTeam |-> names[1], awayTeam |-> names[2], homeScore |-> 2,
     awayScore |-> 1, tournament |-> tournament, day |-> 2, month |-> 11,
     year |-> 2025]

Fixtures == {<<"Galatasaray", "Fenerbahce">>, <<"Fenerbahce", "Galatasaray">>}

NoMatchInfo == fetch_match_info(MatchDict(<<"", "">>, ""))
NoTeamStats ==
    [team_pct |-> 0, opponent_pct |-> 0, team_name |-> "", opponent_name |-> "",
     team_won |-> 0, opponent_won |-> 0, total |-> 0]

NoChart ==
    /\ fig = "none"
    /\ panels = <<>>
    /\ xmax = 0
    /\ total_labels = <<>>
    /\ team_bar_width = FZero
    /\ opponent_bar_width = FZero
    /\ artifact = FALSE

(***************************************************************************)
(* Spec: a whole invocation of main.                                       *)
(***************************************************************************)
MainRowSet ==
    {[position |-> "M", substitute |-> FALSE, teamName |-> "Galatasaray",
      minutesPlayed |-> 90, duelWon |-> 1, duelLost |-> 0],
     [position |-> "F", substitute |-> FALSE, teamName |-> "Galatasaray",
      minutesPlayed |-> NaN, duelWon |-> NaN, duelLost |-> 1],
     [position |-> "G", substitute |-> FALSE, teamName |-> "Galatasaray",
      minutesPlayed |-> 90, duelWon |-> 0, duelLost |-> 0]}

MainGames ==
    {Game(PercentString(51), PercentString(49), 1, 1, 0, 2),
     Game(<<"5", ".", "1", "%">>, PercentString(49), 1, 1, 0, 2),
     GameWithoutRows}

Init ==
    /\ pc = "match_info"
    /\ error = "none"
    /\ fetched = <<>>
    /\ teams \in Fixtures
    /\ match_dict \in {MatchDict(teams, t) : t \in {"Turkish Cup", "Serie A"}}
    /\ rows \in Frames(MainRowSet, 2)
    /\ game \in MainGames
    /\ team_name \in TeamNames
    /\ match_info = NoMatchInfo
    /\ players = <<>>
    /\ team_stats = NoTeamStats
    /\ NoChart

Spec == Init /\ [][Next]_vars


(***************************************************************************)
(* Specifications of the single operations: each starts the invocation at  *)
(* the step under study, with the provider data drawn from a larger set.   *)
(***************************************************************************)
HomeFixture == <<"Galatasaray", "Fenerbahce">>
PlainGame == Game(PercentString(51), PercentString(49), 1, 1, 0, 2)
PlainRow ==
    [position |-> "M", substitute |-> FALSE, teamName |-> "Galatasaray",
     minutesPlayed |-> 90, duelWon |-> 1, duelLost |-> 0]

\* main has fetched the match metadata and is about to fetch the players
AtPlayers(frames, requested) ==
    /\ pc = "players"
    /\ error = "none"
    /\ fetched = <<"match">>
    /\ teams = HomeFixture
    /\ match_dict = MatchDict(teams, "Super Lig")
    /\ rows \in frames
    /\ game = PlainGame
    /\ team_name \in requested
    /\ match_info = fetch_match_info(match_dict)
    /\ players = <<>>
    /\ team_stats = NoTeamStats
    /\ NoChart

FilterRowSet ==
    [position : {"G", "M"}, substitute : BOOLEAN,
     teamName : {"Galatasaray", "Fenerbahce"}, minutesPlayed : {90},
     duelWon : 0..MaxDuel, duelLost : {0}]

SortRowSet ==
    [position : {"G", "M"}, substitute : {FALSE}, teamName : {"Galatasaray"},
     minutesPlayed : {90}, duelWon : 0..MaxDuel, duelLost : 0..MaxDuel]

MissingRowSet ==
    [position : {"M"}, substitute : {FALSE}, teamName : {"Galatasaray"},
     minutesPlayed : {NaN, 90}, duelWon : {NaN} \cup 0..MaxDuel,
     duelLost : {NaN} \cup 0..MaxDuel]

InitFilter == AtPlayers(Frames(FilterRowSet, MaxRows), {"Galatasaray", "Besiktas"})
InitSort == AtPlayers(Frames(SortRowSet, MaxRows), {"Galatasaray"})
\* three numeric cells vary per row: frames of one row fewer
InitMissing == AtPlayers(Frames(MissingRowSet, MaxRows - 1), {"Galatasaray"})

NextPlayers == FetchPlayerDuels

SpecFilter == InitFilter /\ [][NextPlayers]_vars
SpecSort == InitSort /\ [][NextPlayers]_vars
SpecMissing == InitMissing /\ [][NextPlayers]_vars

\* main has fetched metadata and players and is about to fetch the team stats
PercentStringSet ==
    {PercentString(51), PercentString(49), PercentString(100), PercentString(0),
     <<"5", ".", "1", "%">>, <<>>}

TeamGames ==
    {Game(h, a, gh, ga, ah, aa) :
        h \in PercentStringSet, a \in PercentStringSet,
        gh \in 0..MaxCount, ga \in 0..MaxCount,
        ah \in 0..MaxCount, aa \in 0..MaxCount}
    \cup {GameWithoutRows}

InitTeam ==
    /\ pc = "team"
    /\ error = "none"
    /\ fetched = <<"match", "players">>
    /\ teams \in Fixtures
    /\ match_dict = MatchDict(teams, "Super Lig")
    /\ rows = Named(<<PlainRow>>)
    /\ game \in TeamGames
    /\ team_name \in TeamNames
    /\ match_info = fetch_match_info(match_dict)
    /\ players = fetch_player_duels(rows, team_name)
    /\ team_stats = NoTeamStats
    /\ NoChart

NextTeam ==
    \/ FetchTeamPercentages
    \/ FetchTeamPercentagesIndexError
    \/ FetchTeamPercentagesValueError

SpecTeam == InitTeam /\ [][NextTeam]_vars

\* main has fetched everything and calls create_chart
ChartRowSet ==
    [position : {"M"}, substitute : {FALSE}, teamName : {"Galatasaray"},
     minutesPlayed : {90}, duelWon : 0..MaxDuel, duelLost : 0..MaxDuel]

InitChart ==
    /\ pc = "chart"
    /\ error = "none"
    /\ fetched = <<"match", "players", "team">>
    /\ teams = HomeFixture
    /\ match_dict = MatchDict(teams, "Super Lig")
    /\ rows \in Frames(ChartRowSet, MaxRows - 1)
    /\ game = PlainGame
    /\ team_name = DefaultTeam
    /\ match_info = fetch_match_info(match_dict)
    /\ players = fetch_player_duels(rows, team_name)
    /\ team_stats = fetch_team_percentages(game, teams, team_name)
    /\ NoChart

SpecChart == InitChart /\ [][create_chart]_vars

\* create_chart has drawn the title, chart and player panels
InitLegend ==
    /\ pc = "legend"
    /\ error = "none"
    /\ fetched = <<"match", "players", "team">>
    /\ teams = HomeFixture
    /\ match_dict = MatchDict(teams, "Super Lig")
    /\ rows = Named(<<PlainRow>>)
    /\ \E p \in 0..Percent : \E q \in {Percent - p, 50} :
          game = Game(PercentString(p), PercentString(q), 1, 1, 0, 2)
    /\ team_name = DefaultTeam
    /\ match_info = fetch_match_info(match_dict)
    /\ players = fetch_player_duels(rows, team_name)
    /\ team_stats = fetch_team_percentages(game, teams, team_name)
    /\ fig = "open"
    /\ panels = <<"title", "chart", "players">>
    /\ xmax = AxisUpperBound(players)
    /\ total_labels = TotalLabelAnchors(players)
    /\ team_bar_width = FZero
    /\ opponent_bar_width = FZero
    /\ artifact = FALSE

NextLegend == DrawLegend

SpecLegend == InitLegend /\ [][NextLegend]_vars


(***************************************************************************)
(* Properties.                                                             *)
(***************************************************************************)
Range(f) == {f[i] : i \in DOMAIN f}

PlayersFetched == "players" \in Range(fetched)
TeamFetched == "team" \in Range(fetched)

\* row i of the provider's frame is an outfield starter of the requested team
EligibleRow(i) ==
    /\ rows[i].position # "G"
    /\ ~rows[i].substitute
    /\ rows[i].teamName = team_name

\* how often the row named n appears in the returned sequence
Occurrences(n) == Cardinality({j \in 1..Len(players) : players[j].player = n})

\* C1: once fetch_player_duels has returned, a row of the provider's frame
\* appears in the result iff it is not a goalkeeper, not a substitute and of
\* the requested team; it then appears exactly once, and nothing else appears.
C1_EligibleRowsOnly ==
    PlayersFetched =>
        /\ \A i \in 1..Len(rows) :
              Occurrences(rows[i].name) =
                  IF EligibleRow(i) THEN 1 ELSE 0
        /\ \A j \in 1..Len(players) :
              \E i \in 1..Len(rows) : rows[i].name = players[j].player

\* a frame with a goalkeeper, a substitute and one eligible starter
C1_Witness ==
    /\ PlayersFetched
    /\ Len(rows) = 3
    /\ Len(players) = 1
    /\ \E i \in 1..3 : rows[i].position = "G" /\ ~rows[i].substitute
                       /\ rows[i].teamName = team_name
    /\ \E i \in 1..3 : rows[i].position # "G" /\ rows[i].substitute
                       /\ rows[i].teamName = team_name

\* the returned sequence read backwards: the ranking, best player first
Ranked == [i \in 1..Len(players) |-> players[Len(players) + 1 - i]]

RecordTotal(p) == p.won + p.lost

\* p ranks at least as high as q under (total DESC, won DESC)
RanksAtLeast(p, q) ==
    \/ RecordTotal(p) > RecordTotal(q)
    \/ RecordTotal(p) = RecordTotal(q) /\ p.won >= q.won

SameKeys(p, q) == RecordTotal(p) = RecordTotal(q) /\ p.won = q.won

\* C2: the returned sequence is the reverse of the eligible rows sorted by
\* total descending, then won descending; rows tied on both keys keep their
\* source order; the first returned record is the lowest ranked and the last
\* the highest ranked.
C2_ReversedStableRanking ==
    PlayersFetched =>
        /\ \A i \in 1..Len(rows) :
              EligibleRow(i) =>
                 \E j \in 1..Len(Ranked) :
                    /\ Ranked[j].player = rows[i].name
                    /\ Ranked[j].won = rows[i].duelWon
                    /\ Ranked[j].lost = rows[i].duelLost
        /\ \A i \in 1..(Len(Ranked) - 1) :
              /\ RecordTotal(Ranked[i]) >= RecordTotal(Ranked[i + 1])
              /\ RecordTotal(Ranked[i]) = RecordTotal(Ranked[i + 1])
                    => Ranked[i].won >= Ranked[i + 1].won
        /\ \A i \in 1..Len(Ranked) : \A j \in (i + 1)..Len(Ranked) :
              SameKeys(Ranked[i], Ranked[j]) => Ranked[i].player < Ranked[j].player
        /\ \A j \in 1..Len(players) :
              /\ RanksAtLeast(players[j], players[1])
              /\ RanksAtLeast(players[Len(players)], players[j])

\* three eligible rows, two of them tied on both keys, one ranked above them
C2_Witness ==
    /\ PlayersFetched
    /\ Len(players) = 3
    /\ SameKeys(players[1], players[2])
    /\ RecordTotal(players[3]) > RecordTotal(players[2])

\* the provider's frame with every missing numeric cell written as 0
ZeroedRows ==
    [i \in 1..Len(rows) |->
        [rows[i] EXCEPT
            !.minutesPlayed = IF @ = NaN THEN 0 ELSE @,
            !.duelWon = IF @ = NaN THEN 0 ELSE @,
            !.duelLost = IF @ = NaN THEN 0 ELSE @]]

\* C3: the result for a frame with missing duelWon, duelLost or minutesPlayed
\* is the result for the same frame with 0 in their place; no record carries a
\* missing or negative number, and the total used for the ranking is
\* won + lost of the defaulted values.
C3_MissingAsZero ==
    /\ pc # "aborted"
    /\ PlayersFetched =>
        /\ players = fetch_player_duels(ZeroedRows, team_name)
        /\ \A j \in 1..Len(players) :
              /\ players[j].won \in Nat
              /\ players[j].lost \in Nat
              /\ players[j].minutes \in Nat
        /\ \A i \in 1..Len(PlayerFrame(rows, team_name)) :
              LET r == PlayerFrame(rows, team_name)[i]
              IN  r.duelTotal \in Nat /\ r.duelTotal = r.duelWon + r.duelLost

\* a row without duelWon but with lost duels, behind a row without duels
C3_Witness ==
    /\ PlayersFetched
    /\ Len(rows) >= 2
    /\ rows[1].duelWon = 0 /\ rows[1].duelLost = 0
    /\ rows[2].duelWon = NaN /\ rows[2].duelLost = 1
    /\ rows[2].minutesPlayed = NaN

\* the whole-match rows of the team statistics frame
AllRow(n) == CHOOSE r \in Range(game) : r.period = "ALL" /\ r.name = n

\* C4: for a team of the match, the summary takes the percentages of the
\* "Duels" row and the sums of ground and aerial counts from the team's own
\* side, the opponent's from the other side, names the other team as the
\* opponent, and total = team_won + opponent_won.
C4_SummaryBySide ==
    (TeamFetched /\ team_name \in Range(teams)) =>
        LET home == teams[1] = team_name
            d == AllRow("Duels")
            g == AllRow("Ground duels")
            a == AllRow("Aerial duels")
        IN  /\ PercentString(team_stats.team_pct) = IF home THEN d.home ELSE d.away
            /\ PercentString(team_stats.opponent_pct) = IF home THEN d.away ELSE d.home
            /\ team_stats.team_won =
                  IF home THEN g.homeValue + a.homeValue ELSE g.awayValue + a.awayValue
            /\ team_stats.opponent_won =
                  IF home THEN g.awayValue + a.awayValue ELSE g.homeValue + a.homeValue
            /\ team_stats.opponent_name = IF home THEN teams[2] ELSE teams[1]
            /\ team_stats.team_name = team_name
            /\ team_stats.total = team_stats.team_won + team_stats.opponent_won

\* the away team is requested, and the two sides differ in every figure
C4_Witness ==
    /\ TeamFetched
    /\ team_name = teams[2]
    /\ team_stats.team_pct = 49 /\ team_stats.opponent_pct = 51
    /\ team_stats.team_won = 2 * MaxCount /\ team_stats.opponent_won = 1

\* x * 100 rounded to the nearest integer, computed exactly
Hundredths(x) ==
    FTruncInt(DAdd(Norm([neg |-> x.neg, m |-> BMul(x.m, IntBits(100)), e |-> x.e]),
                   FDivInt(1, 2)))

LegendDrawn == "legend" \in Range(panels)

\* C5: for team_pct in 0..100 and any opponent_pct, the legend widths are
\* team (team_pct / 100) * 6.0 and opponent 6.0 - team; their float sum is
\* exactly 6.0, both lie in [0, 6.0], and team_pct = 51 gives 3.06 and 2.94.
C5_LegendWidths ==
    (LegendDrawn /\ team_stats.team_pct \in 0..100) =>
        /\ FAdd(team_bar_width, opponent_bar_width) = LEGEND_TOTAL_WIDTH
        /\ FLe(FZero, team_bar_width) /\ FLe(team_bar_width, LEGEND_TOTAL_WIDTH)
        /\ FLe(FZero, opponent_bar_width)
        /\ FLe(opponent_bar_width, LEGEND_TOTAL_WIDTH)
        /\ Hundredths(team_bar_width) = 6 * team_stats.team_pct
        /\ Hundredths(opponent_bar_width) = 600 - 6 * team_stats.team_pct
        /\ team_stats.team_pct = 51 =>
              /\ team_bar_width = FDivInt(306, 100)
              /\ opponent_bar_width = FDivInt(294, 100)

\* 51 % against an opponent percentage that is not its complement
C5_Witness ==
    /\ LegendDrawn
    /\ team_stats.team_pct = 51
    /\ team_stats.opponent_pct = 50

\* C6: with no eligible player, fetch_player_duels returns the empty
\* sequence and create_chart fails at no step of its own: only the file
\* system can stop it.
C6_EmptyDataset ==
    (PlayersFetched /\ players = <<>> /\ fig # "none") => error \in {"none", "OSError"}

\* C7: a requested team that is neither name of the pair gets no summary:
\* with all rows present and well-formed percentages, the call fails with
\* LookupError.
C7_LookupError ==
    (/\ pc # "team"
     /\ team_name \notin Range(teams)
     /\ HasStatRows(game)
     /\ CanParsePercent(AllRow("Duels").home)
     /\ CanParsePercent(AllRow("Duels").away)) =>
        (error = "LookupError" /\ ~TeamFetched)

DrawingStarted == fig # "none" \/ panels # <<>> \/ artifact

IsPrefix(s, t) == Len(s) <= Len(t) /\ s = SubSeq(t, 1, Len(s))

\* C8: the three fetches happen in the order metadata, players, team stats;
\* drawing starts only after all three; a provider failure or a percentage
\* string that is not an integer ends the invocation with no figure and no
\* output file.
C8_DrawAfterFetch ==
    /\ IsPrefix(fetched, <<"match", "players", "team">>)
    /\ DrawingStarted => fetched = <<"match", "players", "team">>
    /\ error \in {"ProviderError", "IndexError"} => ~DrawingStarted
    /\ (HasStatRows(game) /\ ~CanParsePercent(AllRow("Duels").home)) => ~DrawingStarted
    /\ (HasStatRows(game) /\ ~CanParsePercent(AllRow("Duels").away)) => ~DrawingStarted

\* a complete invocation, and the file it wrote
C8_Witness ==
    /\ pc = "done"
    /\ artifact
    /\ fetched = <<"match", "players", "team">>

\* C9: when the invocation has ended, no figure is left open.
C9_FigureReleased == pc \in {"done", "aborted"} => fig # "open"

MaxOf(S) == CHOOSE x \in S : \A y \in S : y <= x
MaxTotal == MaxOf({RecordTotal(players[i]) : i \in 1..Len(players)})

ChartDrawn == "chart" \in Range(panels)

LabelsInside ==
    \A i \in 1..Len(players) :
        /\ total_labels[i] = FDivInt(4 * RecordTotal(players[i]) + 1, 4)
        /\ FLe(FZero, total_labels[i])
        /\ FLe(total_labels[i], FromInt(xmax))
        /\ total_labels[i] # FromInt(xmax)

\* C10 as stated: the axis upper bound is max(total) + 1.5, and every total
\* label, at total + 0.25, is strictly inside the axis range.
C10_AxisBoundPlusOneAndHalf ==
    ChartDrawn => (FromInt(xmax) = FDivInt(2 * MaxTotal + 3, 2) /\ LabelsInside)

\* C10 amended: the axis upper bound is int(max(total) + 1.5) = max(total) + 1,
\* and every total label, at total + 0.25, is strictly inside the axis range.
C10_AxisBoundTruncated ==
    ChartDrawn => (xmax = MaxTotal + 1 /\ LabelsInside)

\* two rows of different totals
C10_Witness ==
    /\ ChartDrawn
    /\ Len(players) >= 2
    /\ RecordTotal(players[1]) < RecordTotal(players[2])

====
